---- MODULE Spec2Model ----
(***************************************************************************)
(* Model of sensor.py: the Senssun BLE scale sensor entity.                *)
(*                                                                         *)
(* One SenssunScaleSensor instance on a single-threaded asyncio event      *)
(* loop.  Every action is one uninterrupted run of a coroutine or callback *)
(* between two suspension points (awaits), which is the atomicity the      *)
(* event loop gives.  The BLE transport (bleak) and the host are the       *)
(* environment: transport calls return ok or raise, the host calls         *)
(* async_update / async_will_remove_from_hass, the device sends            *)
(* notifications.                                                          *)
(***************************************************************************)
EXTENDS Integers, Sequences, FiniteSets, TLC

\* ------------------------------------------------------------------ bounds
MaxConn == 2            \* BleakClient objects created in one behaviour

\* --------------------------------------------------------------- constants
NoClient == 0                    \* self._client is None
NoneVal == << >>                 \* Python None where an int may stand
Some(v) == <<v>>                 \* a Python int value
ConnIds == 1 .. MaxConn          \* the BleakClient objects, in creation order
RetryIdx == 1 .. MaxConn         \* the _retry_connect tasks, in creation order
U(i) == <<"u", i>>               \* a host task running async_update; the
                                 \* host never updates one entity twice at
                                 \* a time, the retry tasks run beside it
R(i) == <<"r", i>>               \* a task running _retry_connect
NoTask == <<"none", 0>>
Callers == {U(1)}
RetryTasks == {R(i) : i \in RetryIdx}
Tasks == Callers \cup RetryTasks

\* ---------------------------------------------------------------- payloads
\* A notification payload is a sequence of bytes (0..255).
Zeros9 == <<0, 0, 0, 0, 0, 0, 0, 0, 0>>
MkPayload(b9, hi, lo, ctr) == Zeros9 \o <<b9, hi, lo, 0, 0, ctr>>

PStable5 == MkPayload(1, 0, 5, 160)        \* the scenario payload: 500 g
PUnstable5 == MkPayload(1, 0, 5, 0)        \* same, ctr1 = 0x00
PShort == Zeros9 \o <<1, 0, 5, 0, 0>>      \* 14 bytes
Payloads == {PStable5, PUnstable5, PShort}

\* ----------------------------------------------------------------- decoder
RECURSIVE BitAnd(_, _)
BitAnd(a, b) ==
    IF a = 0 \/ b = 0 THEN 0
    ELSE (IF a % 2 = 1 /\ b % 2 = 1 THEN 1 ELSE 0)
         + 2 * BitAnd(a \div 2, b \div 2)

\* Python slice data[lo:hi] for 0 <= lo <= hi (indices clipped to the length).
Slice(data, lo, hi) ==
    LET n == Len(data)
        h == IF hi < n THEN hi ELSE n
    IN  IF lo >= h THEN << >> ELSE SubSeq(data, lo + 1, h)

SignedByte(b) == IF b >= 128 THEN b - 256 ELSE b
SignedShort(hi, lo) ==
    LET u == hi * 256 + lo IN IF u >= 32768 THEN u - 65536 ELSE u

\* struct.unpack(">bhhb", xvalue): needs exactly 6 bytes, else struct.error.
unpack(xvalue) ==
    IF Len(xvalue) # 6
    THEN [raised |-> TRUE, exc |-> "struct.error", weight_raw |-> 0, ctr1 |-> 0]
    ELSE [raised |-> FALSE, exc |-> "",
          weight_raw |-> SignedShort(xvalue[2], xvalue[3]),
          ctr1 |-> SignedByte(xvalue[6])]

\* read_stable(ctr1): int((ctr1 & 0xA0) == 0xA0).  Python's & on a negative
\* int is two's complement, so only the low byte of ctr1 meets the mask.
read_stable(ctr1) == IF BitAnd(ctr1 % 256, 160) = 160 THEN 1 ELSE 0

\* read_stable is defined in the class body (without self); decode_weight
\* calls it by its bare name.  A method's name lookup goes local, enclosing
\* function, module, builtins: the class namespace is not searched, and the
\* module defines no read_stable, so the call raises NameError.
read_stable_in_scope == FALSE

\* A decode_weight without the stability test of lines 70-72.
decode_weight_ungated(data) ==
    LET u == unpack(Slice(data, 9, 15))
    IN  IF u.raised
        THEN [raised |-> TRUE, exc |-> u.exc, value |-> NoneVal]
        ELSE [raised |-> FALSE, exc |-> "", value |-> Some(u.weight_raw * 100)]

\* decode_weight(data): the result, or the exception it raises.
decode_weight(data) ==
    LET xvalue == Slice(data, 9, 15)
        u == unpack(xvalue)
    IN  IF u.raised
        THEN [raised |-> TRUE, exc |-> u.exc, value |-> NoneVal]
        ELSE IF ~read_stable_in_scope
        THEN [raised |-> TRUE, exc |-> "NameError", value |-> NoneVal]
        ELSE IF read_stable(u.ctr1) = 0
        THEN [raised |-> FALSE, exc |-> "", value |-> NoneVal]
        ELSE [raised |-> FALSE, exc |-> "", value |-> Some(u.weight_raw * 100)]

\* ------------------------------------------------------------------- state
VARIABLES
    client,            \* self._client: NoClient or the BleakClient it holds
    conn,              \* per BleakClient: unused, connecting, live, failed, closed
    closeCalls,        \* per BleakClient: number of disconnect() calls made on it
    notifying,         \* BleakClients with notification_handler registered
    available,         \* self._available
    state,             \* self._state: NoneVal or Some(grams)
    disconnect_timer,  \* the handle in self._disconnect_timer: "none", or
                       \* pending and armed by "connect" (line 112) or by
                       \* "handler" (line 92), or "dead" (it has fired)
    leakedTimers,      \* pending call_later handles no attribute refers to
    lockHolder,        \* the task owning self._connect_lock, or NoTask
    lockWaiters,       \* the lock's FIFO queue of waiting tasks
    pc,                \* position of every task
    pending,           \* the BleakClient the lock holder awaits, or NoClient
    retry_task,        \* self._retry_task: 0 (None) or the index of a retry task
    must_cancel,       \* retry tasks with a CancelledError yet to be thrown in
    discCreated,       \* _disconnect tasks created by disconnect(), not yet run
    discAwait,         \* per BleakClient: _disconnect tasks awaiting its close
    tdpc,              \* async_will_remove_from_hass: idle or awaiting
    tdConn,            \* the BleakClient whose close the teardown awaits
    tdCloseCalls,      \* per BleakClient: disconnect() calls the teardown made
    ret,               \* the host call or transport callback that the last
                       \* step completed, and how; NoRet after other steps
    handed             \* how the connect sequence ended that handed the lock
                       \* to the task now at "haslock" (else "none")

vars == <<client, conn, closeCalls, notifying, available, state,
          disconnect_timer, leakedTimers, lockHolder, lockWaiters, pc, pending,
          retry_task, must_cancel, discCreated, discAwait, tdpc, tdConn,
          tdCloseCalls, ret, handed>>

connVars == <<conn, closeCalls, notifying>>
timerVars == <<disconnect_timer, leakedTimers>>
lockVars == <<lockHolder, lockWaiters>>
discVars == <<discCreated, discAwait>>
tdVars == <<tdpc, tdConn, tdCloseCalls>>

NoRet == [op |-> "none", res |-> "none", data |-> << >>]

\* __init__
Init ==
    /\ client = NoClient
    /\ conn = [c \in ConnIds |-> "unused"]
    /\ closeCalls = [c \in ConnIds |-> 0]
    /\ notifying = {}
    /\ available = FALSE
    /\ state = NoneVal
    /\ disconnect_timer = "none"
    /\ leakedTimers = 0
    /\ lockHolder = NoTask
    /\ lockWaiters = << >>
    /\ pc = [t \in Tasks |-> IF t \in Callers THEN "idle" ELSE "unused"]
    /\ pending = NoClient
    /\ retry_task = 0
    /\ must_cancel = {}
    /\ discCreated = 0
    /\ discAwait = [c \in ConnIds |-> 0]
    /\ tdpc = "idle"
    /\ tdConn = NoClient
    /\ tdCloseCalls = [c \in ConnIds |-> 0]
    /\ ret = NoRet
    /\ handed = "none"

\* ----------------------------------------------------------------- helpers
\* The connected test with its sense inverted.
IsConnected_inverted == client # NoClient /\ conn[client] # "live"

\* `self._client and self._client.is_connected` (lines 96, 138, 164)
IsConnected == client # NoClient /\ conn[client] = "live"

\* The next BleakClient object / retry task to be created.
NextConn == 1 + Cardinality({c \in ConnIds : conn[c] # "unused"})
NextRetry == 1 + Cardinality({i \in RetryIdx : pc[R(i)] # "unused"})

\* Where a task is once async_update has returned: a host task can be
\* started again, a retry task is finished.
End(t) == IF t \in Callers THEN "idle" ELSE "done"
\* What the host sees of an async_update call that ended the way `how`:
\* "noop" (already connected), "ok", "failed" (the failure was handled
\* inside connect), "raised" (an exception came out of the call).
RetOf(t, how) ==
    IF t \in Callers
    THEN [op |-> "async_update", res |-> how, data |-> << >>]
    ELSE NoRet

\* Leaving `async with self._connect_lock` and returning from connect and
\* async_update: Lock.release() hands the lock to the first waiter, which
\* runs in a later iteration of the loop.  p and w are pc and the queue as
\* the body left them, endst the final position of t, how the way the
\* sequence ended: "ok", "failed", "noop", "raised" or "cancelled".
ConnectExit(t, p, w, endst, how) ==
    /\ lockHolder' = IF w = << >> THEN NoTask ELSE Head(w)
    /\ handed' = IF w = << >> THEN "none" ELSE how
    /\ lockWaiters' = IF w = << >> THEN w ELSE Tail(w)
    /\ pc' = LET p1 == [p EXCEPT ![t] = endst]
             IN  IF w = << >> THEN p1 ELSE [p1 EXCEPT ![Head(w)] = "haslock"]
    /\ pending' = NoClient
    /\ ret' = RetOf(t, how)

\* A _schedule_retry that forgets to cancel the task it replaces.
RetryCancelPc_nocancel(p) == p

\* _schedule_retry, lines 129-130: `if self._retry_task: cancel()`, as seen
\* in pc.  A task that sleeps or waits for the lock is cancelled on the spot
\* (its wake-up only raises CancelledError); cancelling a finished task does
\* nothing; the running task itself is handled in RetryEnd.
RetryCancelPc(p) ==
    IF retry_task # 0 /\ p[R(retry_task)] \in {"sleeping", "waitlock"}
    THEN [p EXCEPT ![R(retry_task)] = "cancelled"]
    ELSE p

\* The same cancel, as seen in the lock's queue: a cancelled waiter leaves.
RetryCancelWaiters(w) ==
    IF retry_task = 0 THEN w ELSE SelectSeq(w, LAMBDA x : x # R(retry_task))

\* A retry task that calls _schedule_retry cancels itself while running: no
\* await follows, so its body runs to the end and the task ends cancelled.
RetryEnd(t) ==
    IF t \in Callers THEN "idle"
    ELSE IF retry_task # 0 /\ t = R(retry_task) THEN "cancelled" ELSE "done"

\* A _schedule_retry in which the cancel of the running retry task ends
\* that task on the spot, before the new task is created.
ConnectFailed_no_reschedule(t) ==
    /\ available' = FALSE
    /\ IF retry_task # 0 /\ t = R(retry_task)
       THEN /\ retry_task' = retry_task
            /\ ConnectExit(t, pc, lockWaiters, "cancelled", "failed")
       ELSE /\ NextRetry \in RetryIdx
            /\ retry_task' = NextRetry
            /\ ConnectExit(t, [RetryCancelPc(pc) EXCEPT
                                  ![R(NextRetry)] = "sleeping"],
                           RetryCancelWaiters(lockWaiters), RetryEnd(t),
                           "failed")

\* The except branches of connect (lines 114-125): mark unavailable, then
\* _schedule_retry (lines 128-131), then leave the lock and return.
ConnectFailed(t) ==
    /\ available' = FALSE
    /\ NextRetry \in RetryIdx
    /\ retry_task' = NextRetry
    /\ ConnectExit(t, [RetryCancelPc(pc) EXCEPT ![R(NextRetry)] = "sleeping"],
                   RetryCancelWaiters(lockWaiters), RetryEnd(t), "failed")

\* The except clauses of connect (lines 114, 118, 122) in order: TimeoutError,
\* BleakError, Exception.  "Exception" stands for any other subclass of
\* Exception, such as AttributeError.
Caught(exc) == exc \in {"TimeoutError", "BleakError", "Exception"}

\* An exception no except clause takes leaves connect through the lock's
\* exit and comes out of async_update; av is _available as the try block
\* left it.
ConnectPropagates(t, av) ==
    /\ available' = av
    /\ retry_task' = retry_task
    /\ ConnectExit(t, pc, lockWaiters, End(t), "raised")

\* The try block of connect raised exc.
ConnectRaised(t, exc, av) ==
    IF Caught(exc) THEN ConnectFailed(t) ELSE ConnectPropagates(t, av)

\* connect, lines 96-101, run by the owner of the lock up to the first await.
connect_locked(t) ==
    IF IsConnected
    THEN /\ ConnectExit(t, pc, lockWaiters, End(t), "noop")
         /\ UNCHANGED <<client, connVars, available, state, timerVars,
                        retry_task, must_cancel, discVars, tdVars>>
    ELSE /\ NextConn \in ConnIds
         /\ client' = NextConn
         /\ conn' = [conn EXCEPT ![NextConn] = "connecting"]
         /\ pending' = NextConn
         /\ lockHolder' = t
         /\ handed' = "none"
         /\ pc' = [pc EXCEPT ![t] = "connecting"]
         /\ UNCHANGED <<closeCalls, notifying, available, state, timerVars,
                        lockWaiters, retry_task, must_cancel, discVars, tdVars>>
         /\ ret' = NoRet

\* connect, line 95: a free lock is taken without suspending, else the task
\* queues behind the owner.
connect(t) ==
    IF lockHolder = NoTask
    THEN connect_locked(t)
    ELSE /\ pc' = [pc EXCEPT ![t] = "waitlock"]
         /\ lockWaiters' = Append(lockWaiters, t)
         /\ UNCHANGED <<client, connVars, available, state, timerVars,
                        lockHolder, pending, retry_task, must_cancel, discVars,
                        tdVars, handed>>
         /\ ret' = NoRet

\* async_update, lines 162-165
async_update(t) ==
    IF IsConnected
    THEN /\ pc' = [pc EXCEPT ![t] = End(t)]
         /\ ret' = RetOf(t, "noop")
         /\ UNCHANGED <<client, connVars, available, state, timerVars,
                        lockVars, pending, retry_task, must_cancel, discVars,
                        tdVars, handed>>
    ELSE connect(t)

\* ----------------------------------------------------------------- actions
\* The host calls async_update (polling, or async_added_to_hass, line 154).
AsyncUpdate(t) ==
    /\ t \in Callers
    /\ pc[t] = "idle"
    /\ async_update(t)

\* _retry_connect, lines 133-135: the sleep is over, async_update runs.
RetryFire(i) ==
    /\ pc[R(i)] = "sleeping"
    /\ async_update(R(i))

\* A task that queued for the lock has been handed it and runs on.
LockAcquired(t) ==
    /\ pc[t] = "haslock"
    /\ t \notin must_cancel
    /\ connect_locked(t)

ConnectOutcomes == {"ok", "TimeoutError", "BleakError", "Exception"}

\* connect, lines 101-105: `await wait_for(self._client.connect())` returns
\* or raises.  On success line 103 sets _available and line 105 reads
\* self._client again: if a _disconnect has set it to None meanwhile, the
\* attribute access raises AttributeError, caught by `except Exception`.
\* A client on which disconnect() was called while connecting fails.
ConnectReturn(t) ==
    /\ pc[t] = "connecting"
    /\ t \notin must_cancel
    /\ \E outcome \in ConnectOutcomes :
        IF outcome = "ok"
        THEN /\ closeCalls[pending] = 0
             /\ conn' = [conn EXCEPT ![pending] = "live"]
             /\ IF client = NoClient
                THEN /\ ConnectRaised(t, "Exception", TRUE)
                     /\ UNCHANGED <<client, closeCalls, notifying, state,
                                    timerVars, must_cancel, discVars, tdVars>>
                ELSE /\ available' = TRUE
                     /\ notifying' = notifying \cup {client}
                     /\ pc' = [pc EXCEPT ![t] = "subscribing"]
                     /\ UNCHANGED <<client, closeCalls, state, timerVars,
                                    lockVars, pending, retry_task, must_cancel,
                                    discVars, tdVars, handed>>
                     /\ ret' = NoRet
        ELSE /\ conn' = [conn EXCEPT ![pending] = "failed"]
             /\ ConnectRaised(t, outcome, available)
             /\ UNCHANGED <<client, closeCalls, notifying, state, timerVars,
                            must_cancel, discVars, tdVars>>

\* The handle in self._disconnect_timer is scheduled and not yet due.
TimerPending == disconnect_timer \in {"connect", "handler"}

\* Arming the idle timer at the end of connect, line 112: the attribute is
\* overwritten, a handle still pending stays scheduled with no reference.
ArmInitialTimer ==
    /\ disconnect_timer' = "connect"
    /\ leakedTimers' = IF TimerPending THEN leakedTimers + 1 ELSE leakedTimers

SubscribeOutcomes == {"ok", "BleakError"}

\* connect, lines 105-112: `await self._client.start_notify(...)` returns or
\* raises.
SubscribeReturn(t) ==
    /\ pc[t] = "subscribing"
    /\ t \notin must_cancel
    /\ \E outcome \in SubscribeOutcomes :
        IF outcome = "ok"
        THEN /\ conn[pending] = "live"
             /\ ArmInitialTimer
             /\ ConnectExit(t, pc, lockWaiters, End(t), "ok")
             /\ UNCHANGED <<client, connVars, available, state, retry_task,
                            must_cancel, discVars, tdVars>>
        ELSE /\ notifying' = notifying \ {pending}
             /\ ConnectRaised(t, outcome, available)
             /\ UNCHANGED <<client, conn, closeCalls, state, timerVars,
                            must_cancel, discVars, tdVars>>

\* A retry task cancelled while it owns the lock: CancelledError is thrown in
\* at its await.  It is no Exception, so no except branch of connect runs;
\* the lock is released on the way out.  A connect under way is abandoned.
CancelDeliver(t) ==
    /\ t \in must_cancel
    /\ pc[t] \in {"haslock", "connecting", "subscribing"}
    /\ must_cancel' = must_cancel \ {t}
    /\ conn' = IF pc[t] = "connecting"
               THEN [conn EXCEPT ![pending] = "failed"] ELSE conn
    /\ ConnectExit(t, pc, lockWaiters, "cancelled", "cancelled")
    /\ UNCHANGED <<client, closeCalls, notifying, available, state, timerVars,
                   retry_task, discVars, tdVars>>

\* disconnect, lines 137-139: a _disconnect task is created when connected.
disconnect ==
    discCreated' = IF IsConnected THEN discCreated + 1 ELSE discCreated

\* A call_later handle comes due and calls self.disconnect: the handle the
\* attribute refers to, or one that line 112 left behind.
IdleTimerFire ==
    /\ \/ /\ TimerPending
          /\ disconnect_timer' = "dead"
          /\ UNCHANGED leakedTimers
       \/ /\ leakedTimers > 0
          /\ leakedTimers' = leakedTimers - 1
          /\ UNCHANGED disconnect_timer
    /\ disconnect
    /\ UNCHANGED <<client, connVars, available, state, lockVars, pc, pending,
                   retry_task, must_cancel, discAwait, tdVars, handed>>
    /\ ret' = NoRet

\* A finally block that forgets to drop the handle.
DisconnectFinally_keeps_client ==
    /\ client' = client
    /\ available' = FALSE

\* A finally block that drops the handle and forgets _available.
DisconnectFinally_keeps_available ==
    /\ client' = NoClient
    /\ available' = available

\* _disconnect, lines 147-150: the finally block.
DisconnectFinally ==
    /\ client' = NoClient
    /\ available' = FALSE

\* `await self._client.disconnect()` (line 143) suspends the caller only
\* when the client has a link to take down or to abandon; on a client that
\* is not connected the call returns at once.
CloseSuspends(c) == conn[c] \in {"live", "connecting"}

\* _disconnect, lines 142-143, in a task of its own: it starts running and
\* calls disconnect() on whatever self._client is by now.  On None the
\* attribute access raises AttributeError, which `except Exception` logs, and
\* the finally block runs at once.
DisconnectTaskStart ==
    /\ discCreated > 0
    /\ discCreated' = discCreated - 1
    /\ IF client = NoClient
       THEN /\ DisconnectFinally
            /\ UNCHANGED <<closeCalls, discAwait>>
       ELSE /\ closeCalls' = [closeCalls EXCEPT ![client] = @ + 1]
            /\ IF CloseSuspends(client)
               THEN /\ discAwait' = [discAwait EXCEPT ![client] = @ + 1]
                    /\ UNCHANGED <<client, available>>
               ELSE /\ DisconnectFinally
                    /\ UNCHANGED discAwait
    /\ UNCHANGED <<conn, notifying, state, timerVars, lockVars, pc, pending,
                   retry_task, must_cancel, tdVars, handed>>
    /\ ret' = NoRet

\* The transport drops the link of a client whose disconnect() is under way;
\* from here on its is_connected is False.
LinkDown(c) ==
    /\ conn[c] = "live"
    /\ discAwait[c] > 0 \/ (tdpc = "awaiting" /\ tdConn = c)
    /\ conn' = [conn EXCEPT ![c] = "closed"]
    /\ notifying' = notifying \ {c}
    /\ UNCHANGED <<client, closeCalls, available, state, timerVars, lockVars,
                   pc, pending, retry_task, must_cancel, discVars, tdVars, handed>>
    /\ ret' = NoRet

CloseOutcomes == {"ok", "Exception"}

\* _disconnect, lines 143-150, in a task: `await self._client.disconnect()`
\* returns (the link is down) or raises; either way the finally block runs.
DisconnectTaskReturn(c, outcome) ==
    /\ discAwait[c] > 0
    /\ outcome = "ok" => conn[c] # "live"
    /\ discAwait' = [discAwait EXCEPT ![c] = @ - 1]
    /\ DisconnectFinally
    /\ UNCHANGED <<connVars, state, timerVars, lockVars, pc, pending,
                   retry_task, must_cancel, discCreated, tdVars, handed>>
    /\ ret' = NoRet

\* async_will_remove_from_hass, lines 158-159: cancel of the retry task.  A
\* task that sleeps or waits for the lock is cancelled on the spot; one that
\* owns the lock gets CancelledError at its await (CancelDeliver).
TeardownCancelPc ==
    IF retry_task # 0 /\ pc[R(retry_task)] \in {"sleeping", "waitlock"}
    THEN [pc EXCEPT ![R(retry_task)] = "cancelled"]
    ELSE pc

TeardownMustCancel ==
    IF retry_task # 0
       /\ pc[R(retry_task)] \in {"haslock", "connecting", "subscribing"}
    THEN must_cancel \cup {R(retry_task)}
    ELSE must_cancel

\* A _disconnect whose except clause lets the error of the close through.
DisconnectResult_propagates(outcome) ==
    IF outcome = "ok" THEN "ok" ELSE "raised"

\* _disconnect, lines 142-146: what comes out of the try statement when the
\* close ended the way `outcome` ("ok", or the exception raised, AttributeError
\* for the attribute access on None): `except Exception` takes every
\* exception, so _disconnect returns normally.
DisconnectResult(outcome) ==
    IF outcome \in {"ok", "Exception", "AttributeError"} THEN "ok" ELSE "raised"

\* What the host sees of async_will_remove_from_hass; closed is the client
\* it called disconnect() on, if any.
TeardownRet(res, closed) ==
    [op |-> "async_will_remove_from_hass", res |-> res, data |-> closed]

\* async_will_remove_from_hass, lines 156-160, up to the await inside
\* _disconnect (line 143); with nothing to wait for, through to the end.
Teardown ==
    /\ tdpc = "idle"
    /\ pc' = TeardownCancelPc
    /\ lockWaiters' = RetryCancelWaiters(lockWaiters)
    /\ must_cancel' = TeardownMustCancel
    /\ IF client = NoClient
       THEN /\ DisconnectFinally
            /\ ret' = TeardownRet(DisconnectResult("AttributeError"), << >>)
            /\ UNCHANGED <<closeCalls, tdVars>>
       ELSE /\ closeCalls' = [closeCalls EXCEPT ![client] = @ + 1]
            /\ tdCloseCalls' = [tdCloseCalls EXCEPT ![client] = @ + 1]
            /\ IF CloseSuspends(client)
               THEN /\ tdpc' = "awaiting"
                    /\ tdConn' = client
                    /\ ret' = NoRet
                    /\ UNCHANGED <<client, available>>
               ELSE /\ DisconnectFinally
                    /\ ret' = TeardownRet(DisconnectResult("ok"), <<client>>)
                    /\ UNCHANGED <<tdpc, tdConn>>
    /\ UNCHANGED <<conn, notifying, state, timerVars, lockHolder, pending,
                   retry_task, discVars, handed>>

\* async_will_remove_from_hass: the close returns or raises, the finally
\* block of _disconnect runs and the call returns to the host.
TeardownReturn(outcome) ==
    /\ tdpc = "awaiting"
    /\ outcome = "ok" => conn[tdConn] # "live"
    /\ tdpc' = "idle"
    /\ tdConn' = NoClient
    /\ DisconnectFinally
    /\ ret' = TeardownRet(DisconnectResult(outcome), <<tdConn>>)
    /\ UNCHANGED <<connVars, state, timerVars, lockVars, pc, pending,
                   retry_task, must_cancel, discVars, tdCloseCalls, handed>>

\* notification_handler, lines 89-92: cancel the handle held, arm a new one.
ResetTimer ==
    /\ disconnect_timer' = "handler"
    /\ UNCHANGED leakedTimers

HandlerRet(data, res) ==
    [op |-> "notification_handler", res |-> res, data |-> data]

\* notification_handler, lines 81-92.  An exception of decode_weight leaves
\* the handler at line 83; a None result makes round(None, 1) raise TypeError
\* at line 84, before anything is assigned.  round(int, 1) is that int.
notification_handler(data) ==
    LET weight == decode_weight(data)
    IN  IF weight.raised \/ weight.value = NoneVal
        THEN /\ ret' = HandlerRet(data, "raised")
             /\ UNCHANGED <<state, available, timerVars>>
        ELSE /\ state' = weight.value
             /\ available' = TRUE
             /\ ResetTimer
             /\ ret' = HandlerRet(data, "ok")

\* The transport delivers a notification of a live, subscribed client.
Notification(data) ==
    /\ \E c \in notifying : conn[c] = "live"
    /\ notification_handler(data)
    /\ UNCHANGED <<client, connVars, lockVars, pc, pending, retry_task,
                   must_cancel, discVars, tdVars, handed>>

Next ==
    \/ \E t \in Callers : AsyncUpdate(t)
    \/ \E i \in RetryIdx : RetryFire(i)
    \/ \E t \in Tasks : LockAcquired(t)
    \/ \E t \in Tasks : ConnectReturn(t)
    \/ \E t \in Tasks : SubscribeReturn(t)
    \/ \E t \in RetryTasks : CancelDeliver(t)
    \/ IdleTimerFire
    \/ DisconnectTaskStart
    \/ \E c \in ConnIds : LinkDown(c)
    \/ \E c \in ConnIds, o \in CloseOutcomes : DisconnectTaskReturn(c, o)
    \/ Teardown
    \/ \E o \in CloseOutcomes : TeardownReturn(o)
    \/ \E data \in Payloads : Notification(data)

Spec == Init /\ [][Next]_vars

\* The same program with a transport whose disconnect() never raises: what
\* goes wrong here is the program's doing, not a failed close.
NextCloseOk ==
    \/ \E t \in Callers : AsyncUpdate(t)
    \/ \E i \in RetryIdx : RetryFire(i)
    \/ \E t \in Tasks : LockAcquired(t)
    \/ \E t \in Tasks : ConnectReturn(t)
    \/ \E t \in Tasks : SubscribeReturn(t)
    \/ \E t \in RetryTasks : CancelDeliver(t)
    \/ IdleTimerFire
    \/ DisconnectTaskStart
    \/ \E c \in ConnIds : LinkDown(c)
    \/ \E c \in ConnIds : DisconnectTaskReturn(c, "ok")
    \/ Teardown
    \/ TeardownReturn("ok")
    \/ \E data \in Payloads : Notification(data)

SpecCloseOk == Init /\ [][NextCloseOk]_vars

\* What the event loop and the transport guarantee: a call_later handle that
\* is due is called, a created task is run, a released lock is handed on, a
\* cancellation is delivered, and an awaited transport call (connect,
\* start_notify, disconnect) comes back.  Nothing obliges the host to call
\* or the device to notify.
Fairness ==
    /\ WF_vars(IdleTimerFire)
    /\ \A i \in RetryIdx : WF_vars(RetryFire(i))
    /\ \A t \in Tasks : WF_vars(LockAcquired(t))
    /\ \A t \in Tasks : WF_vars(ConnectReturn(t))
    /\ \A t \in Tasks : WF_vars(SubscribeReturn(t))
    /\ \A t \in RetryTasks : WF_vars(CancelDeliver(t))
    /\ WF_vars(DisconnectTaskStart)
    /\ \A c \in ConnIds : WF_vars(LinkDown(c))
    /\ \A c \in ConnIds : WF_vars(DisconnectTaskReturn(c, "ok"))
    /\ WF_vars(TeardownReturn("ok"))

FairSpecCloseOk == SpecCloseOk /\ Fairness

\* ------------------------------------------------------------------ claims
\* The transport connections that are open.
LiveConns == {c \in ConnIds : conn[c] = "live"}
\* The manager is Connected: it holds the handle of an open connection.
HoldsLive == client \in LiveConns

\* C1: in every reachable state at most one transport connection is live,
\* and a live connection exists if and only if the manager holds its handle
\* in _client (state Connected).
C1_SingleLiveConnection ==
    /\ Cardinality(LiveConns) <= 1
    /\ LiveConns = IF HoldsLive THEN {client} ELSE {}

\* C2: concurrent async_update -> connect calls never open two transport
\* connections: a caller handed the lock by a caller whose connect sequence
\* succeeded finds the client connected (or, the connection having been
\* closed meanwhile, finds no connection open) and so opens no second one.
C2_SecondCallerFindsConnected ==
    \A t \in Tasks :
        (pc[t] = "haslock" /\ handed = "ok") => (HoldsLive \/ LiveConns = {})

\* W1..: reachable states in which the case of a claim has happened.

\* An ensure_connected request: async_update called by the host, or by a
\* retry task whose sleep is over.
EnsureConnectedStep ==
    \/ \E t \in Callers : AsyncUpdate(t)
    \/ \E i \in RetryIdx : RetryFire(i)

\* The retry tasks that are pending (asleep until the retry interval ends).
PendingRetries == {i \in RetryIdx : pc[R(i)] = "sleeping"}

\* C3: ensure_connected while Connected is a no-op: no transport connect
\* call (no new client), and client handle, availability, last weight and
\* both timers stay as they are (a stale retry timer that fires is used up,
\* none is armed or cancelled).
C3_EnsureConnectedIdempotent ==
    [][(HoldsLive /\ EnsureConnectedStep) =>
        /\ client' = client
        /\ conn' = conn
        /\ available' = available
        /\ state' = state
        /\ disconnect_timer' = disconnect_timer
        /\ leakedTimers' = leakedTimers
        /\ retry_task' = retry_task
        /\ PendingRetries' \subseteq PendingRetries
        /\ \A i \in PendingRetries \ PendingRetries' : pc'[R(i)] = "done"
      ]_vars

\* The host's async_update has returned at line 164 while Connected.
C3_Witness ==
    /\ HoldsLive
    /\ ret.op = "async_update"
    /\ ret.res = "noop"

\* The connect sequence of task t fails in this step: the transport connect
\* raises, line 105 finds no client to subscribe on, or start_notify raises.
ConnectSequenceFails(t) ==
    \/ ConnectReturn(t) /\ (conn'[pending] = "failed" \/ client = NoClient)
    \/ SubscribeReturn(t) /\ pending \notin notifying'

\* C4: every failure of the connect sequence is handled inside connect: the
\* call returns normally, is_available is false afterwards and exactly one
\* retry is pending, a new one that replaces any retry pending before.
C4_FailureSchedulesOneRetry ==
    [][\A t \in Tasks : ConnectSequenceFails(t) =>
        /\ available' = FALSE
        /\ pc'[t] = RetryEnd(t)
        /\ t \in Callers =>
             ret' = [op |-> "async_update", res |-> "failed", data |-> << >>]
        /\ retry_task' \in RetryIdx
        /\ retry_task' # retry_task
        /\ PendingRetries' = {retry_task'}
      ]_vars

\* A second failure has cancelled the retry of the first and scheduled its
\* own.
C4_Witness ==
    /\ ret.res = "failed"
    /\ ~available
    /\ retry_task = 2
    /\ pc[R(1)] = "cancelled"
    /\ pc[R(2)] = "sleeping"

\* A payload that carries a stable reading: at least 15 bytes, and both bits
\* of 0xA0 set in the control byte at offset 14.
StablePayload(p) == Len(p) >= 15 /\ BitAnd(p[15], 160) = 160
\* Its raw weight: the big-endian signed 16-bit integer at offsets 10-11.
RawWeightOf(p) == SignedShort(p[11], p[12])

\* C5: a notification received while Connected whose payload is a stable
\* reading of raw weight w sets the last known weight to w*100 grams, leaves
\* is_available true, re-arms the idle-disconnect timer and stays Connected.
C5_StableNotificationUpdatesWeight ==
    [][\A p \in Payloads :
        (HoldsLive /\ Notification(p) /\ StablePayload(p)) =>
            /\ state' = Some(RawWeightOf(p) * 100)
            /\ available' = TRUE
            /\ disconnect_timer' = "handler"
            /\ HoldsLive'
      ]_vars

\* C6: a notification whose payload is unstable or malformed leaves the last
\* known weight and is_available exactly as they were, and the connection as
\* it was (a Connected manager stays Connected).
C6_UnstableNotificationChangesNothing ==
    [][\A p \in Payloads :
        (Notification(p) /\ ~StablePayload(p)) =>
            /\ state' = state
            /\ available' = available
            /\ client' = client
            /\ conn' = conn
      ]_vars

\* An unstable payload has been handled while Connected.
C6_Witness ==
    /\ HoldsLive
    /\ ret.op = "notification_handler"
    /\ ret.data = PUnstable5

\* C7: after any notification is handled, whatever its payload decodes to,
\* the idle timer held before is cancelled and a fresh one armed by the
\* handler is pending.
C7_NotificationAlwaysResetsTimer ==
    [][\A p \in Payloads : Notification(p) => disconnect_timer' = "handler"]_vars

\* C8: unstable and malformed payloads surface no error: decode_weight
\* returns None for them (for every payload shorter than 15 bytes, too)
\* and the handler returns normally to the transport callback.
C8_MalformedPayloadRaisesNothing ==
    (ret.op = "notification_handler" /\ ~StablePayload(ret.data)) =>
        /\ ret.res = "ok"
        /\ ~decode_weight(ret.data).raised
        /\ decode_weight(ret.data).value = NoneVal

\* C10: teardown is idempotent: no call of async_will_remove_from_hass raises
\* to the host, no connection gets a second close from a later call, and
\* after each call the manager holds no client handle and is_available is
\* false.
C10_TeardownIdempotent ==
    /\ \A c \in ConnIds : tdCloseCalls[c] <= 1
    /\ ret.op = "async_will_remove_from_hass" =>
         /\ ret.res = "ok"
         /\ client = NoClient
         /\ ~available

\* A teardown call has returned that found nothing to close, after an
\* earlier one that closed a connection.
C10_Witness ==
    /\ ret.op = "async_will_remove_from_hass"
    /\ ret.data = << >>
    /\ \E c \in ConnIds : tdCloseCalls[c] = 1 /\ conn[c] = "closed"

\* The manager is Connected on client c, the connect sequence over, and the
\* handler has just been given the stable reading p.
StableReadingHandled(c, p) ==
    /\ client = c
    /\ conn[c] = "live"
    /\ pending # c
    /\ ret.op = "notification_handler"
    /\ ret.data = p

\* The idle disconnect of client c is done: its connection is closed on a
\* disconnect() call, no handle is held and is_available is false.
IdleDisconnected(c) ==
    /\ conn[c] = "closed"
    /\ closeCalls[c] >= 1
    /\ client = NoClient
    /\ ~available

\* The last step handled a notification.
Notified == ret.op = "notification_handler"

\* C9: once Connected and a stable reading has been handled, then, unless a
\* further notification arrives (another payload at once, or any payload
\* after some other step), the idle timer eventually fires, the connection
\* is closed, no client handle is held and is_available is false.
C9_IdleDisconnectLiveness ==
    \A c \in ConnIds : \A p \in {q \in Payloads : StablePayload(q)} :
        [](StableReadingHandled(c, p) =>
            <>(\/ IdleDisconnected(c)
               \/ Notified /\ ret.data # p
               \/ ~Notified /\ <>Notified))

\* An idle-disconnect timer is scheduled and not yet due: the handle the
\* attribute holds, or one left behind without a reference.
IdleTimersPending ==
    (IF TimerPending THEN 1 ELSE 0) + leakedTimers

\* C11: immediately after a teardown (async_will_remove_from_hass) completes,
\* from whatever state it was requested, no idle-disconnect timer and no
\* retry timer is pending and the manager is Disconnected (no client handle).
C11_TeardownCancelsAllTimers ==
    ret.op = "async_will_remove_from_hass" =>
        /\ IdleTimersPending = 0
        /\ PendingRetries = {}
        /\ client = NoClient

\* C12: in every reachable state at most one idle-disconnect timer and at
\* most one retry timer is pending.
C12_AtMostOneTimerOfEachKind ==
    /\ IdleTimersPending <= 1
    /\ Cardinality(PendingRetries) <= 1

\* The manager is in AwaitingRetry: not Connected, no connect sequence in
\* flight, and a retry asleep until the retry interval ends.
AwaitingRetry ==
    /\ ~HoldsLive
    /\ lockHolder = NoTask
    /\ PendingRetries # {}

\* C13: while the one retry scheduled by a connect failure is pending
\* (AwaitingRetry), nothing but the firing of the retry timer (or an
\* explicit teardown) changes the state: the manager stays in AwaitingRetry
\* with that one retry pending and no transport connect attempt is started.
C13_NoTransitionWhileAwaitingRetry ==
    [][(/\ AwaitingRetry
        /\ ~(\E i \in RetryIdx : RetryFire(i))
        /\ ~Teardown) =>
        /\ AwaitingRetry'
        /\ PendingRetries' = PendingRetries
        /\ Cardinality(PendingRetries) = 1
        /\ \A c \in ConnIds : conn[c] = "unused" => conn'[c] = "unused"
      ]_vars

\* What the decoder is to return for a payload p of at least 15 bytes.
ExpectedDecode(p) ==
    IF StablePayload(p) THEN Some(RawWeightOf(p) * 100) ELSE NoneVal

\* C14: for every payload of at least 15 bytes handed to the handler,
\* decode_weight returns weight_raw * 100 when both bits of 0xA0 are set in
\* the control byte at offset 14, and None otherwise; it raises nothing.
C14_DecodeResult ==
    (ret.op = "notification_handler" /\ Len(ret.data) >= 15) =>
        /\ ~decode_weight(ret.data).raised
        /\ decode_weight(ret.data).value = ExpectedDecode(ret.data)

\* A connect attempt is in flight: some task owns the connect lock.
ConnectInFlight == lockHolder # NoTask

\* C15: notification_handler never runs between the moment connect acquires
\* the connect lock and the moment it releases it, the await of the
\* subscribe call included.
C15_NoNotificationDuringConnect ==
    ret.op = "notification_handler" => ~ConnectInFlight

\* A run of _disconnect ends in this step: the awaited close returns or
\* raises (in a task or in the teardown), or there was nothing to wait for.
DisconnectCompletes ==
    \/ \E c \in ConnIds, o \in CloseOutcomes : DisconnectTaskReturn(c, o)
    \/ \E o \in CloseOutcomes : TeardownReturn(o)
    \/ DisconnectTaskStart /\ discAwait' = discAwait
    \/ Teardown /\ tdpc' = "idle"

\* C16: whether the transport close succeeds or raises, _disconnect swallows
\* the error (the teardown that awaits it returns normally) and afterwards
\* the manager holds no client handle and is_available is false.
C16_DisconnectAlwaysClears ==
    [][DisconnectCompletes =>
        /\ client' = NoClient
        /\ available' = FALSE
        /\ ret'.op = "async_will_remove_from_hass" => ret'.res = "ok"
      ]_vars

\* A teardown has returned whose close raised: the link it was to take down
\* is still up, and no handle is held.
C16_Witness ==
    /\ ret.op = "async_will_remove_from_hass"
    /\ \E c \in ConnIds : ret.data = <<c>> /\ conn[c] = "live"
    /\ client = NoClient
    /\ ~available

\* The model has no BleakClient left to create.
ClientsExhausted == NextConn > MaxConn

\* The retry timer of task i fires and async_update runs: while Connected it
\* is a no-op; otherwise the task starts a transport connect on a new client
\* under the lock, or queues for the lock behind a connect in flight.
RetryFireReconnects(i) ==
    IF HoldsLive
    THEN pc'[R(i)] = "done" /\ conn' = conn
    ELSE \/ /\ pc'[R(i)] = "connecting"
            /\ lockHolder' = R(i)
            /\ conn[client'] = "unused"
            /\ conn'[client'] = "connecting"
         \/ /\ ConnectInFlight
            /\ pc'[R(i)] = "waitlock"

\* A pending retry stops being pending only because its timer fires, a
\* teardown cancels it, or a later failure replaces it by a new pending one.
RetryLeavesPending(i) ==
    \/ RetryFire(i)
    \/ Teardown
    \/ retry_task' # i /\ pc'[R(retry_task')] = "sleeping"

DisconnectInProgress ==
    \/ discCreated > 0
    \/ client # NoClient /\ discAwait[client] > 0
    \/ tdpc = "awaiting" /\ tdConn = client

\* C18: whenever connect has returned (no connect sequence is in flight) and
\* the manager holds a connected client, an idle-disconnect timer is pending
\* or a disconnect is in progress; also after a connect whose subscribe
\* (start_notify) failed.
C18_ConnectedHasIdleTimer ==
    (HoldsLive /\ ~ConnectInFlight) =>
        (IdleTimersPending >= 1 \/ DisconnectInProgress)

\* The clients whose transport connection was opened.
OpenedConns == {c \in ConnIds : conn[c] \in {"live", "closed"}}

\* C19: each opened transport connection receives at most one close call
\* (disconnect() on its client), whatever the interleaving of idle-timer
\* firings, disconnect() calls and teardown.
C19_AtMostOneClosePerConnection ==
    \A c \in OpenedConns : closeCalls[c] <= 1

\* C20: in every reachable state (the model's states are those at which no
\* coroutine is mid-step) is_available is true only while the manager holds
\* a client handle.
C20_AvailableImpliesHandle ==
    available => client # NoClient

\* An idle _disconnect task of an earlier client has completed while a new
\* connect attempt, whose transport connect has succeeded, awaits its
\* subscribe: no handle is held and is_available is false.
C20_Witness ==
    /\ ConnectInFlight
    /\ pc[lockHolder] = "subscribing"
    /\ conn[pending] = "live"
    /\ \E c \in ConnIds : c # pending /\ conn[c] = "closed" /\ discAwait[c] = 0
                           /\ closeCalls[c] > tdCloseCalls[c]
    /\ tdpc = "idle"
    /\ discCreated = 0
    /\ client = NoClient
    /\ ~available

====
